---- MODULE Spec2Model ----
(***************************************************************************)
(* Model of the Wox "Kill Process" plugin (src/src/main.py): the           *)
(* background refresher (_refresh_processes_loop, _refresh_processes,      *)
(* _update_tracked_results), the query handler (query) and kill requests   *)
(* (kill_process), all coroutines of one asyncio event loop.               *)
(*                                                                         *)
(* One action of the model is one run of a coroutine from a suspension     *)
(* point (an await that really yields: the lock, a host call, the sleep)   *)
(* to the next one; code between two suspension points runs atomically,    *)
(* as it does on the event loop. The operating system (processes starting  *)
(* and exiting) and the host (its answers) are the environment.            *)
(*                                                                         *)
(* Spec is the concurrent plugin. The other specifications run one         *)
(* component over all of its inputs: SpecFilter the filter and the score   *)
(* of query, SpecRecon successive reconciliation passes, SpecInspect the   *)
(* inspection of the listed processes, SpecResolver and SpecCache the      *)
(* name resolver (src/src/process_name_resolver.py), SpecKill the kill     *)
(* requests with what they send the host, SpecDesktop the scan of the      *)
(* .desktop directories, SpecOrder the order of the results of a query,    *)
(* SpecSubtitle the subtitle of a result, SpecAction the action of a       *)
(* result. SpecLive is the refresher and the queries under fairness.       *)
(***************************************************************************)
EXTENDS Integers, Sequences, FiniteSets, TLC

\* ------------------------------------------------------------------ bounds
MaxPid == 2          \* process ids are 1..MaxPid
MaxQueries == 2      \* query requests issued over a run
NumTasks == 2        \* query coroutines that can be in flight together

Pids == 1..MaxPid
Tasks == 1..NumTasks
Refresher == NumTasks + 1   \* identity of the refresher task on the lock
NoTask == 0                 \* the lock is free

\* ----------------------------------------------------------------- strings
\* A string is a sequence of one-character strings.
UpperCase == <<"A","B","C","D","E","F","G","H","I","J","K","L","M",
               "N","O","P","Q","R","S","T","U","V","W","X","Y","Z">>
LowerCase == <<"a","b","c","d","e","f","g","h","i","j","k","l","m",
               "n","o","p","q","r","s","t","u","v","w","x","y","z">>

\* str.lower() on one character
LowerChar(c) ==
    IF \E i \in 1..Len(UpperCase) : UpperCase[i] = c
    THEN LowerCase[CHOOSE i \in 1..Len(UpperCase) : UpperCase[i] = c]
    ELSE c

\* str.lower()
Lower(s) == [i \in 1..Len(s) |-> LowerChar(s[i])]

\* Python's `sub in s` on strings
In(sub, s) ==
    \E i \in 0..(Len(s) - Len(sub)) : SubSeq(s, i + 1, i + Len(sub)) = sub

\* --------------------------------------------------- the operating system
\* What a process slot of the OS can hold: the raw name, the executable
\* path, the name the platform lookups yield, the owner and the resident
\* memory (bytes).
NoProc == 0          \* an empty slot of the process table
Chrome == [name |-> <<"C","h","r","o","m","e">>,
           exe |-> <<"/","o","p","t","/","g","/","c","h","r","o","m","e">>,
           friendly |-> <<"G","o","o","g","l","e"," ","C","h","r","o","m","e">>,
           username |-> <<"b","o","b">>,
           rss |-> 52428800]
Sshd == [name |-> <<"s","s","h","d">>,
         exe |-> <<"/","u","s","r","/","s","b","i","n","/","s","s","h","d">>,
         friendly |-> <<"s","s","h","d">>,
         username |-> <<>>,
         rss |-> 1572864]
ProgramTable == <<Chrome, Sshd>>
ProgramIds == 1..Len(ProgramTable)
\* The programs a pid can be given to: pid 1 runs either program in turn
\* (its pid is reused), the other pids alternate.
ProgramsFor(p) == IF p = 1 THEN ProgramIds ELSE {((p - 1) % Len(ProgramTable)) + 1}
UnknownProcess == <<"U","n","k","n","o","w","n"," ","P","r","o","c","e","s","s">>
NotAvailable == <<"N","/","A">>

\* The search terms of the model's queries (query.search)
Searches == {<<>>, <<"C","H","R","O","M","E">>}

VARIABLES
    os,          \* the OS process table: pid -> program or NoProc
    processes,   \* self._processes: sequence of ProcessInfo, in insertion order
    tracker,     \* self._tracked_results: sequence of TrackedResult, in insertion order
    lock,        \* holder of self._lock (NoTask when free)
    waiters,     \* self._lock._waiters: FIFO of blocked acquirers
    refPc,       \* where the refresher task is suspended
    cur,         \* _update_tracked_results: the entry being processed (result_id, tracked)
    di_used,     \* the dict iterator's size of the dict when iteration began
    di_pos,      \* the dict iterator's position
    to_remove,   \* _update_tracked_results: to_remove
    qpc,         \* per query task: where it is suspended
    qsearch,     \* per query task: query.search, as the host sent it
    qterm,       \* per query task: search_term
    qitems,      \* per query task: list(self._processes.items())
    qi,          \* per query task: index of the record being processed
    qresults,    \* per query task: results
    qnum,        \* per query task: ordinal of the request it serves
    qcount,      \* number of query requests issued so far
    lastBuilt,   \* history: new_processes as built by the latest tick
    failedIds    \* history: result ids for which a host interaction failed

\* State and observations that only the specifications of single components
\* (the resolver, the inspection of processes, reconciliation passes, kill
\* requests) change; the concurrent specification leaves them alone.
VARIABLES
    name_cache,  \* ProcessNameResolver._cache: pid -> (name, time)
    now,         \* the clock, in seconds
    rcall,       \* observation: the latest get_friendly_name call
    resolvedAt,  \* observation: per pid, when the platform lookups last ran
    inspected,   \* observation: the listing and the outcomes of the latest tick
    passLog,     \* observation: snapshot and tracker at the end of each pass
    kill,        \* observation: the latest kill request and what the host was sent
    shown,       \* observation: the latest subtitles computed for a record
    acted        \* observation: the latest action invocation and what it did

aux == <<name_cache, now, rcall, resolvedAt, inspected, passLog, kill,
         shown, acted>>

vars == <<os, processes, tracker, lock, waiters, refPc, cur, di_used, di_pos,
          to_remove, qpc, qsearch, qterm, qitems, qi, qresults, qnum, qcount,
          lastBuilt, failedIds, aux>>

\* ------------------------------------------------------------ the snapshot
\* What can happen to one listed process while a tick inspects it.
InspectOutcomes == {"ok", "gone_before_handle", "gone_before_resolve",
                    "gone_before_exe", "exe_denied", "lookup_none",
                    "handle_denied", "mem_unavailable"}
\* The outcomes in which the creation of the handle raises NoSuchProcess,
\* AccessDenied or ZombieProcess (main.py 115, 139-140).
Skipped == {"gone_before_handle", "handle_denied"}
\* The outcomes the concurrent specification draws from.
TickOutcomes == {"ok", "gone_before_handle"}

\* ProcessNameResolver.get_friendly_name: the platform lookup's name, the raw
\* name when the lookups yield nothing, "Unknown Process" when the process
\* cannot be read at all.
get_friendly_name(prog, outcome) ==
    IF outcome = "gone_before_resolve" THEN UnknownProcess
    ELSE IF outcome = "lookup_none" THEN prog.name
    ELSE prog.friendly

MiB == 1024 * 1024

\* Mutant of ProcessInfo: the friendly name is taken from the pid's record in
\* the snapshot at hand when there is one, and resolved only otherwise (a
\* name cache keyed by pid that never looks at the raw name).
ProcessInfoCachedByPid(pid, prog, outcome) ==
    [pid |-> pid,
     name |-> prog.name,
     exe_path |-> IF outcome \in {"gone_before_resolve", "gone_before_exe", "exe_denied"}
                  THEN <<>> ELSE prog.exe,
     username |-> IF prog.username = <<>> THEN NotAvailable ELSE prog.username,
     memory_mb |-> [num |-> IF outcome = "mem_unavailable" THEN 0 ELSE prog.rss,
                    den |-> MiB],
     friendly_name |-> IF \E i \in 1..Len(processes) : processes[i].pid = pid
                       THEN processes[CHOOSE i \in 1..Len(processes) :
                                          processes[i].pid = pid].friendly_name
                       ELSE get_friendly_name(prog, outcome)]

\* The ProcessInfo built for one listed process (main.py 114-138).
\* memory_mb is the exact quotient rss / (1024 * 1024), kept as a fraction.
ProcessInfo(pid, prog, outcome) ==
    [pid |-> pid,
     name |-> prog.name,
     exe_path |-> IF outcome \in {"gone_before_resolve", "gone_before_exe", "exe_denied"}
                  THEN <<>> ELSE prog.exe,
     username |-> IF prog.username = <<>> THEN NotAvailable ELSE prog.username,
     memory_mb |-> [num |-> IF outcome = "mem_unavailable" THEN 0 ELSE prog.rss,
                    den |-> MiB],
     friendly_name |-> get_friendly_name(prog, outcome)]

\* Mutant of BuildFrom: the handler of a process whose handle cannot be
\* created ends the enumeration (break for continue).
RECURSIVE BuildFromBreak(_, _, _)
BuildFromBreak(table, outcome, p) ==
    IF p > MaxPid THEN <<>>
    ELSE IF table[p] = NoProc THEN BuildFromBreak(table, outcome, p + 1)
    ELSE IF outcome[p] \in Skipped THEN <<>>
    ELSE <<ProcessInfo(p, ProgramTable[table[p]], outcome[p])>>
         \o BuildFromBreak(table, outcome, p + 1)

\* new_processes: one record per listed process, in enumeration (pid) order;
\* a process whose handle cannot be created is skipped.
RECURSIVE BuildFrom(_, _, _)
BuildFrom(table, outcome, p) ==
    IF p > MaxPid THEN <<>>
    ELSE (IF table[p] = NoProc \/ outcome[p] \in Skipped
          THEN <<>>
          ELSE <<ProcessInfo(p, ProgramTable[table[p]], outcome[p])>>)
         \o BuildFrom(table, outcome, p + 1)

Build(table, outcome) == BuildFrom(table, outcome, 1)

\* The process table after the processes that vanished during a tick are gone.
AfterVanish(table, outcome) ==
    [p \in Pids |-> IF outcome[p] \in {"gone_before_handle", "gone_before_resolve",
                                        "gone_before_exe"}
                    THEN NoProc ELSE table[p]]

PidsOf(procs) == {procs[i].pid : i \in 1..Len(procs)}

\* self._processes.get(pid)
HasPid(procs, pid) == pid \in PidsOf(procs)
GetProc(procs, pid) == procs[CHOOSE i \in 1..Len(procs) : procs[i].pid = pid]

\* Mutant of Install: the new records are written into the old mapping
\* (self._processes.update(new_processes)), so records of processes that
\* were not enumerated stay.
InstallMerged(old, new) ==
    new \o SelectSeq(old, LAMBDA r : r.pid \notin PidsOf(new))

\* self._processes = new_processes (main.py 142)
Install(old, new) == new

\* --------------------------------------------------------------- the lock
\* Mutant of ReleasedLock: a release frees the lock and wakes nobody.
ReleasedLockWakesNobody == NoTask

\* asyncio.Lock.release(): the lock passes to the first waiter, if any.
ReleasedLock == IF waiters = <<>> THEN NoTask ELSE Head(waiters)
ReleasedWaiters == IF waiters = <<>> THEN <<>> ELSE Tail(waiters)

\* -------------------------------------------------------------- the query
\* Mutant of Matches: the friendly name is compared without being
\* lowercased.
MatchesFriendlyAsIs(search_term, proc_info) ==
    ~ ( /\ search_term # <<>>
        /\ ~ In(search_term, Lower(proc_info.name))
        /\ ~ In(search_term, proc_info.friendly_name)
        /\ ~ In(search_term, Lower(proc_info.exe_path)) )

\* The filter of query (main.py 207-218): TRUE when the record is kept.
Matches(search_term, proc_info) ==
    LET process_name == Lower(proc_info.name)
        friendly_name == proc_info.friendly_name
        exe_path == Lower(proc_info.exe_path)
    IN ~ ( /\ search_term # <<>>
           /\ ~ In(search_term, process_name)
           /\ ~ In(search_term, Lower(friendly_name))
           /\ ~ In(search_term, exe_path) )

\* Mutant of Score: a match on the executable path scores 100 too.
ScoreAnyField(search_term, proc_info) ==
    IF /\ search_term # <<>>
       /\ \/ In(search_term, Lower(proc_info.name))
          \/ In(search_term, Lower(proc_info.friendly_name))
          \/ In(search_term, Lower(proc_info.exe_path))
    THEN 100 ELSE 50

\* The score of a result (main.py 236)
Score(search_term, proc_info) ==
    IF /\ search_term # <<>>
       /\ \/ In(search_term, Lower(proc_info.name))
          \/ In(search_term, Lower(proc_info.friendly_name))
    THEN 100 ELSE 50

\* search_term = query.search.lower() if query.search else "" (main.py 199)
SearchTerm(search) == IF search # <<>> THEN Lower(search) ELSE <<>>

\* str(uuid.uuid4()): a fresh identifier; the n-th request's result for a
\* pid is named <<n, pid>>, which no other result is.
Uuid4(n, pid) == <<n, pid>>

\* The Result built for a record (main.py 220-237): its id, the pid carried
\* by the kill action's context_data, and its score.
MakeResult(n, search_term, proc_info) ==
    [id |-> Uuid4(n, proc_info.pid),
     pid |-> proc_info.pid,
     score |-> Score(search_term, proc_info)]

\* self._tracked_results[result_id] = TrackedResult(result_id, pid)
Register(trk, result) ==
    Append(trk, [result_id |-> result.id, pid |-> result.pid])

\* self._tracked_results.clear() (main.py 202)
Clear(trk) == <<>>

\* The index of the first record from i on that the filter keeps, or
\* Len(items) + 1: the records before it are skipped without suspending.
RECURSIVE NextMatch(_, _, _)
NextMatch(items, search_term, i) ==
    IF i > Len(items) THEN i
    ELSE IF Matches(search_term, items[i]) THEN i
    ELSE NextMatch(items, search_term, i + 1)

\* Task q, holding the lock, runs the loop of query from record i to its next
\* suspension (the host's get_translation for a kept record) or to its
\* return, which releases the lock.
QueryRun(q, items, search_term, i, results) ==
    LET j == NextMatch(items, search_term, i) IN
    /\ qitems' = [qitems EXCEPT ![q] = items]
    /\ qterm' = [qterm EXCEPT ![q] = search_term]
    /\ qresults' = [qresults EXCEPT ![q] = results]
    /\ qi' = [qi EXCEPT ![q] = j]
    /\ IF j <= Len(items)
       THEN /\ lock' = q
            /\ waiters' = waiters
            /\ qpc' = [qpc EXCEPT ![q] = "iter"]
            /\ refPc' = refPc
       ELSE /\ lock' = ReleasedLock
            /\ waiters' = ReleasedWaiters
            /\ qpc' = [x \in Tasks |->
                         IF x = q THEN "returned"
                         ELSE IF x = ReleasedLock THEN "granted"
                         ELSE qpc[x]]
            /\ refPc' = IF ReleasedLock = Refresher THEN "granted" ELSE refPc

\* query is called: the tracker is cleared, then the lock is taken (at once
\* when it is free, after a wait otherwise).
QueryStart(q, search) ==
    /\ qpc[q] = "idle"
    /\ qcount < MaxQueries
    /\ qcount' = qcount + 1
    /\ qnum' = [qnum EXCEPT ![q] = qcount + 1]
    /\ qsearch' = [qsearch EXCEPT ![q] = search]
    /\ tracker' = Clear(tracker)
    /\ IF lock = NoTask
       THEN QueryRun(q, processes, SearchTerm(search), 1, <<>>)
       ELSE /\ waiters' = Append(waiters, q)
            /\ qpc' = [qpc EXCEPT ![q] = "wait_lock"]
            /\ qterm' = [qterm EXCEPT ![q] = SearchTerm(search)]
            /\ UNCHANGED <<lock, refPc, qitems, qi, qresults>>
    /\ UNCHANGED <<os, processes, cur, di_used, di_pos, to_remove,
                   lastBuilt, failedIds>>

\* A waiting query is handed the lock and starts iterating the snapshot.
QueryGranted(q) ==
    /\ qpc[q] = "granted"
    /\ QueryRun(q, processes, qterm[q], 1, <<>>)
    /\ UNCHANGED <<os, processes, tracker, cur, di_used, di_pos, to_remove,
                   qsearch, qnum, qcount, lastBuilt, failedIds>>

\* The host answers the translations of the record at hand: the result is
\* built, appended and registered, and the loop goes on.
QueryEmit(q) ==
    /\ qpc[q] = "iter"
    /\ LET result == MakeResult(qnum[q], qterm[q], qitems[q][qi[q]]) IN
       /\ tracker' = Register(tracker, result)
       /\ QueryRun(q, qitems[q], qterm[q], qi[q] + 1, Append(qresults[q], result))
    /\ UNCHANGED <<os, processes, cur, di_used, di_pos, to_remove,
                   qsearch, qnum, qcount, lastBuilt, failedIds>>

\* The host call raises: the exception leaves query, releasing the lock.
QueryRaise(q) ==
    /\ qpc[q] = "iter"
    /\ lock' = ReleasedLock
    /\ waiters' = ReleasedWaiters
    /\ qpc' = [x \in Tasks |->
                 IF x = q THEN "idle"
                 ELSE IF x = ReleasedLock THEN "granted"
                 ELSE qpc[x]]
    /\ refPc' = IF ReleasedLock = Refresher THEN "granted" ELSE refPc
    /\ qsearch' = [qsearch EXCEPT ![q] = <<>>]
    /\ qterm' = [qterm EXCEPT ![q] = <<>>]
    /\ qitems' = [qitems EXCEPT ![q] = <<>>]
    /\ qi' = [qi EXCEPT ![q] = 0]
    /\ qresults' = [qresults EXCEPT ![q] = <<>>]
    /\ qnum' = [qnum EXCEPT ![q] = 0]
    /\ UNCHANGED <<os, processes, tracker, cur, di_used, di_pos, to_remove,
                   qcount, lastBuilt, failedIds>>

\* The host has taken the outcome of the request; the task is free again.
QueryAck(q) ==
    /\ qpc[q] = "returned"
    /\ qpc' = [qpc EXCEPT ![q] = "idle"]
    /\ qsearch' = [qsearch EXCEPT ![q] = <<>>]
    /\ qterm' = [qterm EXCEPT ![q] = <<>>]
    /\ qitems' = [qitems EXCEPT ![q] = <<>>]
    /\ qi' = [qi EXCEPT ![q] = 0]
    /\ qresults' = [qresults EXCEPT ![q] = <<>>]
    /\ qnum' = [qnum EXCEPT ![q] = 0]
    /\ UNCHANGED <<os, processes, tracker, lock, waiters, refPc, cur, di_used,
                   di_pos, to_remove, qcount, lastBuilt, failedIds>>

\* ---------------------------------------------------------- the refresher
NoEntry == [result_id |-> <<0, 0>>, pid |-> 0]

\* Mutant of RemoveAll: the removal loop stops after its first pop.
RemoveAllFirst(trk, rem) ==
    SelectSeq(trk, LAMBDA t : rem = <<>> \/ rem[1] # t.result_id)

\* Mutant of RemoveAll: a marked entry is not popped but pointed at no
\* process.
RemoveAllRetargets(trk, rem) ==
    [i \in 1..Len(trk) |->
        IF \E k \in 1..Len(rem) : rem[k] = trk[i].result_id
        THEN [trk[i] EXCEPT !.pid = 0]
        ELSE trk[i]]

\* for result_id in to_remove: self._tracked_results.pop(result_id, None)
RemoveAll(trk, rem) ==
    SelectSeq(trk, LAMBDA t : \A k \in 1..Len(rem) : rem[k] # t.result_id)

\* Mutant of MarkGone: the result of a vanished process is passed over
\* without being marked.
MarkGoneSkipped(rem, result_id) == rem

\* A tracked result whose process is not in the snapshot is marked for
\* removal (main.py 168-171).
MarkGone(rem, result_id) == Append(rem, result_id)

\* Mutant of MarkFailed: a failed host interaction is swallowed and the
\* result stays tracked.
MarkFailedSkipped(rem, result_id) == rem

\* A host interaction that fails (None, false or an exception) marks the
\* result for removal (main.py 176-178, 187-191).
MarkFailed(rem, result_id) == Append(rem, result_id)

\* The loop of _update_tracked_results from position pos, up to the first
\* entry whose process is in the snapshot (for which the host is asked) or to
\* the end of the dict: the position reached and the removals marked.
RECURSIVE Scan(_, _, _, _)
Scan(trk, procs, pos, rem) ==
    IF pos > Len(trk) THEN [pos |-> pos, rem |-> rem]
    ELSE IF ~ HasPid(procs, trk[pos].pid)
         THEN Scan(trk, procs, pos + 1, MarkGone(rem, trk[pos].result_id))
         ELSE [pos |-> pos, rem |-> rem]

\* The refresher leaves _refresh_processes, normally (to its sleep) or by an
\* exception (the task ends): `async with` releases the lock either way.
RefLeave(pc) ==
    /\ refPc' = pc
    /\ lock' = ReleasedLock
    /\ waiters' = ReleasedWaiters
    /\ qpc' = [x \in Tasks |-> IF x = ReleasedLock THEN "granted" ELSE qpc[x]]
    /\ cur' = NoEntry
    /\ di_pos' = 0
    /\ di_used' = 0
    /\ to_remove' = <<>>

\* The refresher, holding the lock, runs the loop of _update_tracked_results
\* over the snapshot procs from position pos to its next suspension
\* (get_updatable_result for an entry) or to its end, where the marked
\* entries are removed.
ReconRun(procs, pos, rem, used) ==
    LET s == Scan(tracker, procs, pos, rem) IN
    IF s.pos <= Len(tracker)
    THEN /\ refPc' = "recon_get"
         /\ cur' = tracker[s.pos]
         /\ di_pos' = s.pos
         /\ di_used' = used
         /\ to_remove' = s.rem
         /\ lock' = Refresher
         /\ UNCHANGED <<waiters, qpc, tracker>>
    ELSE /\ tracker' = RemoveAll(tracker, s.rem)
         /\ RefLeave("sleep")

\* The next() of the dict iterator after the entry at hand: a dict whose size
\* changed since the iteration began raises RuntimeError, which nothing
\* catches: it ends _refresh_processes_loop.
ReconNext(rem) ==
    IF Len(tracker) # di_used
    THEN /\ RefLeave("dead")
         /\ UNCHANGED tracker
    ELSE ReconRun(processes, di_pos + 1, rem, di_used)

\* One tick, once the lock is held: enumerate and inspect the processes,
\* install the new mapping, reconcile the tracked results.
TickWith(outcome) ==
    /\ \A p \in Pids : os[p] = NoProc => outcome[p] = "ok"
    /\ LET new_processes == Build(os, outcome) IN
       /\ os' = AfterVanish(os, outcome)
       /\ processes' = Install(processes, new_processes)
       /\ lastBuilt' = new_processes
       /\ ReconRun(processes', 1, <<>>, Len(tracker))
    /\ UNCHANGED <<qsearch, qterm, qitems, qi, qresults, qnum, qcount, failedIds>>

TickBody == \E outcome \in [Pids -> TickOutcomes] : TickWith(outcome)

\* asyncio.sleep(1) is over: the next tick starts, or waits for the lock.
Tick ==
    /\ refPc = "sleep"
    /\ IF lock = NoTask
       THEN TickBody
       ELSE /\ waiters' = Append(waiters, Refresher)
            /\ refPc' = "wait_lock"
            /\ UNCHANGED <<os, processes, tracker, lock, cur, di_used, di_pos,
                           to_remove, qpc, qsearch, qterm, qitems, qi, qresults, qnum,
                           qcount, lastBuilt, failedIds>>

\* The waiting refresher is handed the lock.
RefGranted ==
    /\ refPc = "granted"
    /\ TickBody

ReconFrame == UNCHANGED <<os, processes, qsearch, qterm, qitems, qi, qresults, qnum,
                          qcount, lastBuilt>>

\* get_updatable_result answers with a handle: the title is translated next.
GetUpdatableHandle ==
    /\ refPc = "recon_get"
    /\ refPc' = "recon_tr"
    /\ ReconFrame
    /\ UNCHANGED <<tracker, lock, waiters, cur, di_used, di_pos, to_remove,
                   qpc, failedIds>>

\* get_updatable_result answers None or raises.
GetUpdatableFails ==
    /\ refPc = "recon_get"
    /\ failedIds' = failedIds \cup {cur.result_id}
    /\ ReconNext(MarkFailed(to_remove, cur.result_id))
    /\ ReconFrame

\* The translations of the title and the tails are back: update_result is
\* called for the entry at hand.
TranslateDone ==
    /\ refPc = "recon_tr"
    /\ refPc' = "recon_upd"
    /\ ReconFrame
    /\ UNCHANGED <<tracker, lock, waiters, cur, di_used, di_pos, to_remove,
                   qpc, failedIds>>

\* A translation raises.
TranslateFails ==
    /\ refPc = "recon_tr"
    /\ failedIds' = failedIds \cup {cur.result_id}
    /\ ReconNext(MarkFailed(to_remove, cur.result_id))
    /\ ReconFrame

\* update_result answers true.
UpdateSucceeds ==
    /\ refPc = "recon_upd"
    /\ ReconNext(to_remove)
    /\ ReconFrame
    /\ UNCHANGED failedIds

\* update_result answers false or raises.
UpdateFails ==
    /\ refPc = "recon_upd"
    /\ failedIds' = failedIds \cup {cur.result_id}
    /\ ReconNext(MarkFailed(to_remove, cur.result_id))
    /\ ReconFrame

\* --------------------------------------------------------- the environment
ProcExit(p) ==
    /\ os[p] # NoProc
    /\ os' = [os EXCEPT ![p] = NoProc]
    /\ UNCHANGED <<processes, tracker, lock, waiters, refPc, cur, di_used,
                   di_pos, to_remove, qpc, qsearch, qterm, qitems, qi, qresults, qnum,
                   qcount, lastBuilt, failedIds>>

ProcSpawn(p, g) ==
    /\ os[p] = NoProc
    /\ os' = [os EXCEPT ![p] = g]
    /\ UNCHANGED <<processes, tracker, lock, waiters, refPc, cur, di_used,
                   di_pos, to_remove, qpc, qsearch, qterm, qitems, qi, qresults, qnum,
                   qcount, lastBuilt, failedIds>>

\* kill_process(pid) (main.py 82-92): the termination is requested and the
\* host is sent the message of its outcome. No lock is taken and no state of
\* the plugin is touched; a successful termination empties the pid's slot.
KillOutcomes == {"notify_success", "notify_no_process", "notify_access_denied",
                 "notify_error"}
KillProcess(pid, outcome) ==
    /\ outcome = "notify_no_process" <=> os[pid] = NoProc
    /\ os' = IF outcome = "notify_success" THEN [os EXCEPT ![pid] = NoProc] ELSE os
    /\ UNCHANGED <<processes, tracker, lock, waiters, refPc, cur, di_used,
                   di_pos, to_remove, qpc, qsearch, qterm, qitems, qi, qresults, qnum,
                   qcount, lastBuilt, failedIds>>

\* ------------------------------------------------------ the specification
\* ProcessNameResolver.__init__ (process_name_resolver.py 22-24): an empty
\* cache; nothing observed yet.
NoProbe == [system |-> "none", name_read |-> "none", name_direct |-> "none",
            workspace |-> "none", exe |-> "none", bundle |-> "none",
            desktop |-> "none"]
NoCall == [seq |-> 0, pid |-> 0, probe |-> NoProbe, ran |-> FALSE,
           result |-> [kind |-> "none", value |-> <<>>]]
NoKill == [seq |-> 0, pid |-> 0, termination |-> "none", host |-> "none",
           during |-> NoTask, sent |-> <<>>, raised |-> FALSE]
NoShown == [seq |-> 0, system |-> "none", exe_path |-> <<>>, name |-> <<>>,
            query |-> <<>>, update |-> <<>>, twice |-> <<>>]
NoAction == [seq |-> 0, payload |-> [has_pid |-> FALSE, pid |-> <<>>],
             termination |-> "none", host |-> "none", requested |-> <<>>,
             sent |-> <<>>, raised |-> "none"]
AuxInit ==
    /\ name_cache = <<>>
    /\ now = 0
    /\ rcall = NoCall
    /\ resolvedAt = [p \in Pids |-> [at |-> -1, name |-> [kind |-> "none", value |-> <<>>]]]
    /\ inspected = [listing |-> [p \in Pids |-> NoProc],
                    outcome |-> [p \in Pids |-> "ok"]]
    /\ passLog = <<>>
    /\ kill = NoKill
    /\ shown = NoShown
    /\ acted = NoAction

\* MyPlugin.init (main.py 65-73): empty snapshot and tracker, a fresh lock,
\* the refresher task created and about to run its first tick.
Init ==
    /\ os \in [Pids -> {NoProc} \cup ProgramIds]
    /\ \A p \in Pids : os[p] \in {NoProc} \cup ProgramsFor(p)
    /\ processes = <<>>
    /\ tracker = <<>>
    /\ lock = NoTask
    /\ waiters = <<>>
    /\ refPc = "sleep"
    /\ cur = NoEntry
    /\ di_used = 0
    /\ di_pos = 0
    /\ to_remove = <<>>
    /\ qpc = [q \in Tasks |-> "idle"]
    /\ qsearch = [q \in Tasks |-> <<>>]
    /\ qterm = [q \in Tasks |-> <<>>]
    /\ qitems = [q \in Tasks |-> <<>>]
    /\ qi = [q \in Tasks |-> 0]
    /\ qresults = [q \in Tasks |-> <<>>]
    /\ qnum = [q \in Tasks |-> 0]
    /\ qcount = 0
    /\ lastBuilt = <<>>
    /\ failedIds = {}
    /\ AuxInit

Next ==
    \/ Tick /\ UNCHANGED aux
    \/ RefGranted /\ UNCHANGED aux
    \/ GetUpdatableHandle /\ UNCHANGED aux
    \/ GetUpdatableFails /\ UNCHANGED aux
    \/ TranslateDone /\ UNCHANGED aux
    \/ TranslateFails /\ UNCHANGED aux
    \/ UpdateSucceeds /\ UNCHANGED aux
    \/ UpdateFails /\ UNCHANGED aux
    \/ \E q \in Tasks, search \in Searches : QueryStart(q, search) /\ UNCHANGED aux
    \/ \E q \in Tasks : QueryGranted(q) /\ UNCHANGED aux
    \/ \E q \in Tasks : QueryEmit(q) /\ UNCHANGED aux
    \/ \E q \in Tasks : QueryRaise(q) /\ UNCHANGED aux
    \/ \E q \in Tasks : QueryAck(q) /\ UNCHANGED aux
    \/ \E p \in Pids : ProcExit(p) /\ UNCHANGED aux
    \/ \E p \in Pids : \E g \in ProgramsFor(p) : ProcSpawn(p, g) /\ UNCHANGED aux
    \/ \E p \in Pids, outcome \in KillOutcomes : KillProcess(p, outcome) /\ UNCHANGED aux

Spec == Init /\ [][Next]_vars

\* ------------------------------------------- the filter, on its own inputs
\* A second specification for the claims about the filter and the score:
\* the snapshot holds a record with any short name, friendly name and path
\* next to a fixed one, and one query task is asked any short search term.
MaxLen == 2
FilterAlphabet == {"a", "A", "b"}
FilterStrings == UNION {[1..n -> FilterAlphabet] : n \in 0..MaxLen}
FilterPaths == UNION {[1..n -> FilterAlphabet] : n \in 0..(MaxLen - 1)}
FirstTask == CHOOSE q \in Tasks : \A x \in Tasks : q <= x

InitFilter ==
    /\ os = [p \in Pids |-> NoProc]
    /\ \E n \in FilterStrings, f \in FilterStrings, e \in FilterPaths :
          processes = << [ProcessInfo(1, Chrome, "ok") EXCEPT
                             !.name = n, !.friendly_name = f, !.exe_path = e],
                         ProcessInfo(MaxPid, Sshd, "ok") >>
    /\ lastBuilt = processes
    /\ tracker = <<>>
    /\ lock = NoTask
    /\ waiters = <<>>
    /\ refPc = "sleep"
    /\ cur = NoEntry
    /\ di_used = 0
    /\ di_pos = 0
    /\ to_remove = <<>>
    /\ qpc = [q \in Tasks |-> "idle"]
    /\ qsearch = [q \in Tasks |-> <<>>]
    /\ qterm = [q \in Tasks |-> <<>>]
    /\ qitems = [q \in Tasks |-> <<>>]
    /\ qi = [q \in Tasks |-> 0]
    /\ qresults = [q \in Tasks |-> <<>>]
    /\ qnum = [q \in Tasks |-> 0]
    /\ qcount = 0
    /\ failedIds = {}
    /\ AuxInit

NextFilter ==
    \/ \E search \in FilterStrings : QueryStart(FirstTask, search) /\ UNCHANGED aux
    \/ QueryEmit(FirstTask) /\ UNCHANGED aux
    \/ QueryAck(FirstTask) /\ UNCHANGED aux

SpecFilter == InitFilter /\ [][NextFilter]_vars

\* ------------------------------------- reconciliation passes, on their own
\* Ticks that follow one another, with no query in between: each pass of
\* _update_tracked_results is logged when it ends.
MaxPasses == 3

AllOk == [p \in Pids |-> "ok"]

\* The tracker a query with an empty search leaves for the snapshot procs
\* (main.py 241-244).
TrackAll(procs) ==
    [i \in 1..Len(procs) |->
        [result_id |-> Uuid4(1, procs[i].pid), pid |-> procs[i].pid]]

\* The plugin after a tick and a query that returned every process.
InitRecon ==
    /\ os \in [Pids -> {NoProc} \cup ProgramIds]
    /\ \A p \in Pids : os[p] \in {NoProc} \cup ProgramsFor(p)
    /\ processes = Build(os, AllOk)
    /\ tracker = TrackAll(processes)
    /\ lock = NoTask
    /\ waiters = <<>>
    /\ refPc = "sleep"
    /\ cur = NoEntry
    /\ di_used = 0
    /\ di_pos = 0
    /\ to_remove = <<>>
    /\ qpc = [q \in Tasks |-> "idle"]
    /\ qsearch = [q \in Tasks |-> <<>>]
    /\ qterm = [q \in Tasks |-> <<>>]
    /\ qitems = [q \in Tasks |-> <<>>]
    /\ qi = [q \in Tasks |-> 0]
    /\ qresults = [q \in Tasks |-> <<>>]
    /\ qnum = [q \in Tasks |-> 0]
    /\ qcount = 1
    /\ lastBuilt = processes
    /\ failedIds = {}
    /\ AuxInit

\* A step of the refresher that ends a pass (the refresher goes to sleep) is
\* logged: the snapshot of the pass, the tracker before and after it, and
\* whether the host answered every entry of the pass without a failure.
PassLogged ==
    /\ passLog' =
         IF refPc' = "sleep"
         THEN Append(passLog,
                     [snapshot |-> processes',
                      before |-> tracker,
                      after |-> tracker',
                      clean |-> \A i \in 1..Len(tracker) :
                                    tracker[i].result_id \notin failedIds'])
         ELSE passLog
    /\ UNCHANGED <<name_cache, now, rcall, resolvedAt, inspected, kill,
                   shown, acted>>

NextRecon ==
    \/ Len(passLog) < MaxPasses /\ Tick /\ PassLogged
    \/ GetUpdatableHandle /\ PassLogged
    \/ GetUpdatableFails /\ PassLogged
    \/ TranslateDone /\ PassLogged
    \/ TranslateFails /\ PassLogged
    \/ UpdateSucceeds /\ PassLogged
    \/ UpdateFails /\ PassLogged
    \/ \E p \in Pids : ProcExit(p) /\ UNCHANGED aux
    \/ \E p \in Pids : \E g \in ProgramsFor(p) : ProcSpawn(p, g) /\ UNCHANGED aux

SpecRecon == InitRecon /\ [][NextRecon]_vars

\* ------------------------------------------------- the resolver, in detail
\* get_friendly_name above is what a tick sees of the resolver; here the
\* resolver is translated tier by tier. A probe fixes what each read and each
\* lookup does for the process at hand.
Str(v) == [kind |-> "str", value |-> v]
None == [kind |-> "none", value |-> <<>>]

RawName == Chrome.name
RegistryName == Chrome.friendly
BundleName == <<"C","h","r","o","m","e"," ","A","p","p">>
DesktopName == <<"C","h","r","o","m","e"," ","W","e","b">>

Systems == {"Darwin", "Linux", "Windows"}                \* platform.system()
NameReads == {"value", "unavailable", "raises"}          \* proc.as_dict(attrs=["name"])
NameDirects == {"value", "raises"}                       \* proc.name()
Workspaces == {"absent", "name", "no_match", "raises"}   \* the NSWorkspace registry
ExeReads == {"bundle", "plain", "denied", "raises"}      \* proc.exe()
BundleLookups == {"name", "none", "raises"}              \* NSBundle info dictionaries
DesktopLookups == {"name", "none", "raises"}             \* the .desktop scan

Probes == [system : Systems, name_read : NameReads, name_direct : NameDirects,
           workspace : Workspaces, exe : ExeReads, bundle : BundleLookups,
           desktop : DesktopLookups]

\* _get_macos_app_name_from_bundle (26-58): the bundle's name, or None when
\* AppKit is absent, the dictionaries hold no name, or anything raises.
get_macos_app_name_from_bundle(probe) ==
    IF probe.workspace # "absent" /\ probe.bundle = "name"
    THEN Str(BundleName) ELSE None

\* _get_macos_friendly_name (60-94). One try block holds the registry loop
\* and the bundle lookup: an error of the registry loop leaves the block, so
\* the bundle lookup is not run and default_name is returned.
get_macos_friendly_name(probe, default_name) ==
    IF probe.workspace = "absent" THEN default_name
    ELSE IF probe.workspace = "raises" THEN default_name
    ELSE IF probe.workspace = "name" THEN Str(RegistryName)
    ELSE IF probe.exe = "bundle"
              /\ get_macos_app_name_from_bundle(probe).kind = "str"
         THEN get_macos_app_name_from_bundle(probe)
         ELSE default_name

\* _get_linux_friendly_name (96-124): the Name= of a .desktop file that
\* mentions the executable; default_name when the path cannot be read, the
\* scan raises or nothing matches.
get_linux_friendly_name(probe, default_name) ==
    IF probe.exe \in {"denied", "raises"} THEN default_name
    ELSE IF probe.desktop = "name" THEN Str(DesktopName)
    ELSE default_name

\* Whether a call runs a platform lookup (138-141).
RunsLookups(probe) ==
    probe.name_read # "raises" /\ probe.system \in {"Darwin", "Linux"}

\* ProcessNameResolver.get_friendly_name (126-150) for a process that the
\* probe describes. The name read yields the raw name, or None where psutil
\* fills in its ad_value, or raises; only a raise reaches the except branch.
get_friendly_name_of(probe) ==
    IF probe.name_read = "raises"
    THEN (IF probe.name_direct = "value" THEN Str(RawName) ELSE Str(UnknownProcess))
    ELSE LET default_name == IF probe.name_read = "value" THEN Str(RawName) ELSE None
         IN IF probe.system = "Darwin" THEN get_macos_friendly_name(probe, default_name)
            ELSE IF probe.system = "Linux" THEN get_linux_friendly_name(probe, default_name)
            ELSE default_name

cache_expiration == 60

MaxCalls == 3
TimeStep == 30
MaxTime == 90

\* The state of the plugin proper, which the resolver does not touch.
plugin == <<os, processes, tracker, lock, waiters, refPc, cur, di_used, di_pos,
            to_remove, qpc, qsearch, qterm, qitems, qi, qresults, qnum, qcount,
            lastBuilt, failedIds>>

\* One call of get_friendly_name for the process pid. The cache is neither
\* consulted nor written: no statement of the class reads or assigns _cache
\* after __init__.
Resolve(pid, probe) ==
    /\ rcall.seq < MaxCalls
    /\ rcall' = [seq |-> rcall.seq + 1, pid |-> pid, probe |-> probe,
                 ran |-> RunsLookups(probe),
                 result |-> get_friendly_name_of(probe)]
    /\ resolvedAt' = IF RunsLookups(probe)
                     THEN [resolvedAt EXCEPT
                             ![pid] = [at |-> now, name |-> get_friendly_name_of(probe)]]
                     ELSE resolvedAt
    /\ name_cache' = name_cache
    /\ UNCHANGED <<now, inspected, passLog, kill, shown, acted, plugin>>

\* Time passes.
Advance ==
    /\ now + TimeStep <= MaxTime
    /\ now' = now + TimeStep
    /\ UNCHANGED <<name_cache, rcall, resolvedAt, inspected, passLog, kill, plugin,
                   shown, acted>>

\* The resolver as a function of its probe: one call, for every probe.
NextResolver ==
    /\ rcall.seq = 0
    /\ \E pid \in Pids, probe \in Probes : Resolve(pid, probe)
SpecResolver == Init /\ [][NextResolver]_vars

\* The resolver over time: calls whose lookups run and give a name.
CacheProbes == {probe \in Probes :
                  /\ probe.system = "Linux"
                  /\ probe.name_read = "value"
                  /\ probe.name_direct = "value"
                  /\ probe.workspace = "absent"
                  /\ probe.exe = "plain"
                  /\ probe.bundle = "none"
                  /\ probe.desktop \in {"name", "none"}}
NextCache ==
    \/ \E pid \in Pids, probe \in CacheProbes : Resolve(pid, probe)
    \/ Advance
SpecCache == Init /\ [][NextCache]_vars

\* ------------------------------------------------ kill requests, observed
\* kill_process (main.py 82-92) with what it sends the host. KillProcess
\* above is the same handler as the concurrent specification sees it: its
\* effect on the process table.
MaxKills == 2

\* What psutil.Process(pid) and terminate() do: the signal is sent, or
\* NoSuchProcess, AccessDenied or another exception is raised.
Terminations == {"ok", "no_such", "denied", "other"}
\* What the host does with get_translation and notify: it answers, or the
\* first notification attempted raises, or every one raises.
HostAnswers == {"ok", "first_fails", "all_fail"}

\* Mutant of NotifyKey: the general handler comes first and takes every
\* exception.
NotifyKeyGeneral(term) ==
    IF term = "ok" THEN "notify_success" ELSE "notify_error"

\* The message of each branch of kill_process (main.py 86, 88, 90, 92).
NotifyKey(term) ==
    CASE term = "ok" -> "notify_success"
      [] term = "no_such" -> "notify_no_process"
      [] term = "denied" -> "notify_access_denied"
      [] OTHER -> "notify_error"

\* The notifications that reach the host. The notification of a success is
\* sent inside the try block: when it raises, the handler of line 91 takes
\* the exception and sends notify_error. A notification raised inside a
\* handler is taken by no sibling handler.
KillSent(term, host) ==
    IF host = "ok" THEN <<NotifyKey(term)>>
    ELSE IF term = "ok" /\ host = "first_fails" THEN <<"notify_error">>
    ELSE <<>>

\* Whether an exception leaves kill_process.
KillRaised(term, host) ==
    host = "all_fail" \/ (host = "first_fails" /\ term # "ok")

\* What a kill request does, but for the plugin's own state.
KillEffects(pid, term, host) ==
    /\ kill.seq < MaxKills
    /\ term = "no_such" <=> os[pid] = NoProc
    /\ os' = IF term = "ok" THEN [os EXCEPT ![pid] = NoProc] ELSE os
    /\ kill' = [seq |-> kill.seq + 1, pid |-> pid, termination |-> term,
                host |-> host, during |-> lock,
                sent |-> KillSent(term, host),
                raised |-> KillRaised(term, host)]
    /\ UNCHANGED <<name_cache, now, rcall, resolvedAt, inspected, passLog,
                   shown, acted>>

\* Mutant of KillRequest: a successful kill also drops the pid's record from
\* the snapshot.
KillRequestEvicting(pid, term, host) ==
    /\ KillEffects(pid, term, host)
    /\ processes' = IF term = "ok"
                    THEN SelectSeq(processes, LAMBDA r : r.pid # pid)
                    ELSE processes
    /\ UNCHANGED <<tracker, lock, waiters, refPc, cur, di_used,
                   di_pos, to_remove, qpc, qsearch, qterm, qitems, qi, qresults, qnum,
                   qcount, lastBuilt, failedIds>>

\* kill_process(pid): no lock is taken, no field of the plugin is assigned.
KillRequest(pid, term, host) ==
    /\ KillEffects(pid, term, host)
    /\ UNCHANGED <<processes, tracker, lock, waiters, refPc, cur, di_used,
                   di_pos, to_remove, qpc, qsearch, qterm, qitems, qi, qresults, qnum,
                   qcount, lastBuilt, failedIds>>

\* Kill requests among the ticks and the queries of one task.
NextKill ==
    \/ Tick /\ UNCHANGED aux
    \/ RefGranted /\ UNCHANGED aux
    \/ GetUpdatableHandle /\ UNCHANGED aux
    \/ TranslateDone /\ UNCHANGED aux
    \/ UpdateSucceeds /\ UNCHANGED aux
    \/ QueryStart(FirstTask, <<>>) /\ UNCHANGED aux
    \/ QueryGranted(FirstTask) /\ UNCHANGED aux
    \/ QueryEmit(FirstTask) /\ UNCHANGED aux
    \/ QueryAck(FirstTask) /\ UNCHANGED aux
    \/ \E pid \in Pids, term \in Terminations, host \in HostAnswers :
          KillRequest(pid, term, host)

SpecKill == Init /\ [][NextKill]_vars

\* ------------------------------------------- the inspection, on its own
\* Ticks whose inspections can go every way, with what each tick listed and
\* what happened to each listed process kept for comparison.
TickInspect ==
    /\ refPc = "sleep"
    /\ lock = NoTask
    /\ \E outcome \in [Pids -> InspectOutcomes] :
          /\ TickWith(outcome)
          /\ inspected' = [listing |-> os, outcome |-> outcome]
    /\ UNCHANGED <<name_cache, now, rcall, resolvedAt, passLog, kill,
                   shown, acted>>

NextInspect ==
    \/ TickInspect
    \/ \E p \in Pids : ProcExit(p) /\ UNCHANGED aux
    \/ \E p \in Pids : \E g \in ProgramsFor(p) : ProcSpawn(p, g) /\ UNCHANGED aux

SpecInspect == Init /\ [][NextInspect]_vars

\* ---------------------------------------------- the .desktop scan, in detail
\* The scan of _get_linux_friendly_name (process_name_resolver.py 102-120)
\* over a layout: what each of the three directories is, and what each of
\* its files is, in the order os.listdir gives them.
MaxFiles == 2

desktop_paths == <<"/usr/share/applications/", "/usr/local/share/applications/",
                   "~/.local/share/applications/">>
DirIds == 1..Len(desktop_paths)

\* os.listdir(desktop_path) lists the directory, or raises because it is
\* missing or may not be read.
DirStates == {"readable", "missing", "unreadable"}
\* A file of a directory: a descriptor that mentions the executable and has a
\* Name= line, one that mentions it and has none, a file that does not
\* mention it (or is no .desktop file), a file that cannot be read.
FileKinds == {"named", "unnamed", "other", "unreadable"}
FileLists == UNION {[1..n -> FileKinds] : n \in 0..MaxFiles}

\* A directory that cannot be listed has no files to speak of.
DirContents ==
    {[state |-> "readable", files |-> f] : f \in FileLists}
    \cup {[state |-> s, files |-> <<>>] : s \in DirStates \ {"readable"}}
Layouts == [DirIds -> DirContents]

\* The Name= value of the i-th file of directory d.
DeclaredName(d, i) == <<"N", "a", "m", "e", d, i>>

Raised == [kind |-> "raise", value |-> <<>>]

\* The loop over the files of one directory from file i (110-120): the name
\* of the first descriptor that mentions the executable and has a Name= line;
\* a file that cannot be read is passed over.
RECURSIVE ScanFiles(_, _, _)
ScanFiles(files, d, i) ==
    IF i > Len(files) THEN None
    ELSE IF files[i] = "named" THEN Str(DeclaredName(d, i))
    ELSE ScanFiles(files, d, i + 1)

\* The loop over desktop_paths from directory d (109-110): os.listdir of a
\* directory that is missing or may not be read raises, outside the handler
\* of the files, and the scan ends.
RECURSIVE ScanDirs(_, _)
ScanDirs(layout, d) ==
    IF d > Len(desktop_paths) THEN None
    ELSE IF layout[d].state # "readable" THEN Raised
    ELSE IF ScanFiles(layout[d].files, d, 1).kind = "str"
         THEN ScanFiles(layout[d].files, d, 1)
         ELSE ScanDirs(layout, d + 1)

\* _get_linux_friendly_name (96-124) for a process whose executable path can
\* be read: the name the scan gives, default_name when it gives none or raises.
get_linux_friendly_name_scan(layout, default_name) ==
    IF ScanDirs(layout, 1).kind = "str" THEN ScanDirs(layout, 1) ELSE default_name

\* One call of get_friendly_name on Linux, the directories being as in layout.
ResolveLinux(pid, layout) ==
    /\ rcall.seq = 0
    /\ rcall' = [seq |-> 1, pid |-> pid, probe |-> layout, ran |-> TRUE,
                 result |-> get_linux_friendly_name_scan(layout, Str(RawName))]
    /\ resolvedAt' = [resolvedAt EXCEPT
                        ![pid] = [at |-> now,
                                  name |-> get_linux_friendly_name_scan(layout, Str(RawName))]]
    /\ name_cache' = name_cache
    /\ UNCHANGED <<now, inspected, passLog, kill, shown, acted, plugin>>

NextDesktop ==
    /\ rcall.seq = 0
    /\ \E pid \in Pids, layout \in Layouts : ResolveLinux(pid, layout)
SpecDesktop == Init /\ [][NextDesktop]_vars

\* ------------------------------------------- the order of a query's results
\* Queries over snapshots of two records, each of which the search term can
\* match by its name, by its path only, or not at all.
OrderNames == {<<"a">>, <<"b">>}
OrderPaths == {<<>>, <<"/", "a">>, <<"/", "b">>}
OrderSearches == {<<>>, <<"a">>, <<"B">>}

InitOrder ==
    /\ os = [p \in Pids |-> NoProc]
    /\ \E n1 \in OrderNames, n2 \in OrderNames, e1 \in OrderPaths, e2 \in OrderPaths :
          processes = << [ProcessInfo(1, Chrome, "ok") EXCEPT
                             !.name = n1, !.friendly_name = n1, !.exe_path = e1],
                         [ProcessInfo(MaxPid, Sshd, "ok") EXCEPT
                             !.name = n2, !.friendly_name = n2, !.exe_path = e2] >>
    /\ lastBuilt = processes
    /\ tracker = <<>>
    /\ lock = NoTask
    /\ waiters = <<>>
    /\ refPc = "sleep"
    /\ cur = NoEntry
    /\ di_used = 0
    /\ di_pos = 0
    /\ to_remove = <<>>
    /\ qpc = [q \in Tasks |-> "idle"]
    /\ qsearch = [q \in Tasks |-> <<>>]
    /\ qterm = [q \in Tasks |-> <<>>]
    /\ qitems = [q \in Tasks |-> <<>>]
    /\ qi = [q \in Tasks |-> 0]
    /\ qresults = [q \in Tasks |-> <<>>]
    /\ qnum = [q \in Tasks |-> 0]
    /\ qcount = 0
    /\ failedIds = {}
    /\ AuxInit

NextOrder ==
    \/ \E search \in OrderSearches : QueryStart(FirstTask, search) /\ UNCHANGED aux
    \/ QueryEmit(FirstTask) /\ UNCHANGED aux
    \/ QueryAck(FirstTask) /\ UNCHANGED aux

SpecOrder == InitOrder /\ [][NextOrder]_vars

\* ------------------------------------------------------------ the subtitle
MaxSegments == 3

AppMarker == <<".", "a", "p", "p">>

\* str.find(sub): the index (from 0) of the first occurrence, or -1.
StrFind(s, sub) ==
    IF In(sub, s)
    THEN CHOOSE i \in 0..(Len(s) - Len(sub)) :
            /\ SubSeq(s, i + 1, i + Len(sub)) = sub
            /\ \A j \in 0..(i - 1) : SubSeq(s, j + 1, j + Len(sub)) # sub
    ELSE -1

\* Mutant of format_app_path: the slice ends where the marker begins.
format_app_path_before_marker(system, exe_path) ==
    IF exe_path = <<>> THEN exe_path
    ELSE IF system = "Darwin" /\ StrFind(exe_path, AppMarker) # -1
         THEN SubSeq(exe_path, 1, StrFind(exe_path, AppMarker))
         ELSE exe_path

\* MyPlugin._format_app_path (main.py 50-63), platform.system() being system.
format_app_path(system, exe_path) ==
    IF exe_path = <<>> THEN exe_path
    ELSE IF system = "Darwin" /\ StrFind(exe_path, AppMarker) # -1
         THEN SubSeq(exe_path, 1, StrFind(exe_path, AppMarker) + 4)
         ELSE exe_path

\* `x or y` on strings
StrOr(x, y) == IF x = <<>> THEN y ELSE x

\* exec_path of query, used as sub_title (main.py 221, 224)
QuerySubTitle(system, proc_info) ==
    StrOr(format_app_path(system, proc_info.exe_path), proc_info.name)

\* updatable.sub_title of _update_tracked_results (main.py 182)
UpdateSubTitle(system, process) ==
    StrOr(format_app_path(system, process.exe_path), process.name)

\* The paths of the model: up to MaxSegments segments, and the path of the
\* Finder.
Segments == {<<"/", "F">>, AppMarker, <<".", "a", "p">>, <<"/", "C">>}
RECURSIVE PathsOf(_)
PathsOf(n) ==
    IF n = 0 THEN {<<>>}
    ELSE PathsOf(n - 1) \cup {p \o g : p \in PathsOf(n - 1), g \in Segments}
Finder == <<"F", "i", "n", "d", "e", "r">>
FinderApp == <<"/", "S", "y", "s", "t", "e", "m", "/", "L", "i", "b", "r", "a", "r", "y",
               "/", "C", "o", "r", "e", "S", "e", "r", "v", "i", "c", "e", "s", "/">>
             \o Finder \o AppMarker
FinderExe == FinderApp
             \o <<"/", "C", "o", "n", "t", "e", "n", "t", "s", "/", "M", "a", "c", "O", "S", "/">>
             \o Finder
ShownPaths == PathsOf(MaxSegments) \cup {FinderExe, FinderApp}

\* The subtitles of one record, as query and as a reconciliation update
\* compute them, and the truncation applied to its own result.
Show(system, exe_path) ==
    LET rec == [ProcessInfo(1, Chrome, "ok") EXCEPT !.name = Finder, !.exe_path = exe_path]
    IN /\ shown.seq = 0
       /\ shown' = [seq |-> 1, system |-> system, exe_path |-> exe_path,
                    name |-> rec.name,
                    query |-> QuerySubTitle(system, rec),
                    update |-> UpdateSubTitle(system, rec),
                    twice |-> format_app_path(system, format_app_path(system, exe_path))]
       /\ UNCHANGED <<name_cache, now, rcall, resolvedAt, inspected, passLog, kill,
                      acted, plugin>>

NextSubtitle == \E system \in Systems, exe_path \in ShownPaths : Show(system, exe_path)
SpecSubtitle == Init /\ [][NextSubtitle]_vars

\* ------------------------------------------------- progress of the queries
\* The refresher and the queries of every task, with an empty search, on a
\* fixed process table. The event loop runs every task that is ready, and
\* every host call is answered, by a value or by an exception: each
\* suspension point is left (weak fairness on the steps that leave it).
NextLive ==
    \/ Tick /\ UNCHANGED aux
    \/ RefGranted /\ UNCHANGED aux
    \/ GetUpdatableHandle /\ UNCHANGED aux
    \/ GetUpdatableFails /\ UNCHANGED aux
    \/ TranslateDone /\ UNCHANGED aux
    \/ TranslateFails /\ UNCHANGED aux
    \/ UpdateSucceeds /\ UNCHANGED aux
    \/ UpdateFails /\ UNCHANGED aux
    \/ \E q \in Tasks : QueryStart(q, <<>>) /\ UNCHANGED aux
    \/ \E q \in Tasks : QueryGranted(q) /\ UNCHANGED aux
    \/ \E q \in Tasks : QueryEmit(q) /\ UNCHANGED aux
    \/ \E q \in Tasks : QueryRaise(q) /\ UNCHANGED aux
    \/ \E q \in Tasks : QueryAck(q) /\ UNCHANGED aux

HostAnswersRefresher ==
    \/ GetUpdatableHandle \/ GetUpdatableFails
    \/ TranslateDone \/ TranslateFails
    \/ UpdateSucceeds \/ UpdateFails

FairLive ==
    /\ WF_vars(RefGranted /\ UNCHANGED aux)
    /\ WF_vars(HostAnswersRefresher /\ UNCHANGED aux)
    /\ \A q \in Tasks : WF_vars(QueryGranted(q) /\ UNCHANGED aux)
    /\ \A q \in Tasks : WF_vars((QueryEmit(q) \/ QueryRaise(q)) /\ UNCHANGED aux)

SpecLive == Init /\ [][NextLive]_vars /\ FairLive


\* ------------------------------------------------- the action of a result
\* action (main.py 94-99) for the payloads a host can hand back: the
\* context_data of a result with a "pid" string of up to MaxDigits
\* characters, or without the key.
MaxDigits == 2

PayloadAlphabet == {"1", "2", "x", "-"}
PayloadStrings == UNION {[1..n -> PayloadAlphabet] : n \in 0..MaxDigits}
Payloads == {[has_pid |-> TRUE, pid |-> s] : s \in PayloadStrings}
               \cup {[has_pid |-> FALSE, pid |-> <<>>]}

DigitChars == {"1", "2"}
DigitValue(c) == IF c = "1" THEN 1 ELSE 2

\* The decimal value of a string of digits.
RECURSIVE Decimal(_)
Decimal(s) ==
    IF s = <<>> THEN 0
    ELSE 10 * Decimal(SubSeq(s, 1, Len(s) - 1)) + DigitValue(s[Len(s)])

\* The digits of the literal s, after its sign.
Unsigned(s) == IF s # <<>> /\ s[1] = "-" THEN Tail(s) ELSE s

\* int(s) raises ValueError unless s is an optional sign and one digit or
\* more.
IntParses(s) ==
    /\ Unsigned(s) # <<>>
    /\ \A i \in 1..Len(Unsigned(s)) : Unsigned(s)[i] \in DigitChars

\* int(s) for a literal that parses.
int(s) == IF s[1] = "-" THEN 0 - Decimal(Unsigned(s)) ELSE Decimal(s)

\* What leaves the try block of action before kill_process is reached:
\* context_data["pid"] raises KeyError for a missing key, int raises
\* ValueError for a string that is no integer literal.
PayloadError(payload) ==
    IF ~ payload.has_pid THEN "KeyError"
    ELSE IF ~ IntParses(payload.pid) THEN "ValueError"
    ELSE "none"

\* except ValueError (main.py 98): the one exception action handles.
ActionCatches(error) == error = "ValueError"

\* The pids kill_process is called with (main.py 97).
ActionRequested(payload) ==
    IF PayloadError(payload) = "none" THEN <<int(payload.pid)>> ELSE <<>>

\* The notifications that reach the host: those of kill_process, or the
\* invalid-pid message of the handler (main.py 99).
ActionSent(payload, term, host) ==
    IF PayloadError(payload) = "none" THEN KillSent(term, host)
    ELSE IF ActionCatches(PayloadError(payload)) /\ host = "ok"
         THEN <<"notify_invalid_pid">>
    ELSE <<>>

\* The exception that leaves action: one of the payload that no handler
\* takes, or one of the host raised in kill_process or in the handler.
ActionRaised(payload, term, host) ==
    IF PayloadError(payload) = "none"
    THEN IF KillRaised(term, host) THEN "HostError" ELSE "none"
    ELSE IF ~ ActionCatches(PayloadError(payload)) THEN PayloadError(payload)
    ELSE IF host # "ok" THEN "HostError"
    ELSE "none"

\* The terminations psutil can answer for the pid of the payload: a pid with
\* a slot in the table is gone exactly when the slot is empty; a pid
\* without one is no process, or is refused as a pid.
TerminationFits(payload, term) ==
    IF PayloadError(payload) # "none" THEN term = "no_such"
    ELSE IF int(payload.pid) \in Pids
         THEN term = "no_such" <=> os[int(payload.pid)] = NoProc
    ELSE term \in {"no_such", "other"}

\* One invocation of action with the payload.
Action(payload, term, host) ==
    /\ acted.seq = 0
    /\ TerminationFits(payload, term)
    /\ os' = IF PayloadError(payload) = "none" /\ term = "ok"
             THEN [os EXCEPT ![int(payload.pid)] = NoProc]
             ELSE os
    /\ acted' = [seq |-> acted.seq + 1, payload |-> payload,
                 termination |-> term, host |-> host,
                 requested |-> ActionRequested(payload),
                 sent |-> ActionSent(payload, term, host),
                 raised |-> ActionRaised(payload, term, host)]
    /\ UNCHANGED <<processes, tracker, lock, waiters, refPc, cur, di_used,
                   di_pos, to_remove, qpc, qsearch, qterm, qitems, qi, qresults, qnum,
                   qcount, lastBuilt, failedIds>>
    /\ UNCHANGED <<name_cache, now, rcall, resolvedAt, inspected, passLog, kill,
                   shown>>

NextAction ==
    \E payload \in Payloads, term \in Terminations, host \in HostAnswers :
        Action(payload, term, host)

SpecAction == Init /\ [][NextAction]_vars

\* ================================================================ claims
ReconStates == {"recon_get", "recon_tr", "recon_upd"}
TrackedIds == {tracker[i].result_id : i \in 1..Len(tracker)}
InProgress(q) == qpc[q] \in {"wait_lock", "granted", "iter"}

\* Two characters that are the same letter, whatever their case.
SameLetter(a, b) ==
    \/ a = b
    \/ \E i \in 1..Len(UpperCase) : {a, b} = {UpperCase[i], LowerCase[i]}

\* s contains t case-insensitively: t lies at some offset of s, letter by
\* letter, case ignored.
ContainsIgnoreCase(s, t) ==
    \E off \in 0..(Len(s) - Len(t)) :
        \A k \in 1..Len(t) : SameLetter(s[off + k], t[k])

\* C1: the refresh loop is never terminated by an error: in no reachable
\* state has _refresh_processes_loop ended with an exception.
C1_LoopNeverTerminated == refPc # "dead"

\* C2: snapshot atomicity: the current snapshot is always the complete
\* mapping built by one tick (or the initial empty one), and the list a query
\* iterates is, for as long as it iterates, that installed snapshot.
C2_SnapshotAtomicity ==
    /\ processes = lastBuilt
    /\ \A q \in Tasks : qpc[q] = "iter" => qitems[q] = processes

\* C2 witness: a query iterates a two-record snapshot while the process
\* table has changed and a tick waits for the lock.
C2_Witness ==
    \E q \in Tasks :
        /\ qpc[q] = "iter"
        /\ Len(qitems[q]) = 2
        /\ refPc = "wait_lock"
        /\ \E p \in Pids : os[p] = NoProc

\* C3: staleness bound: once a reconciliation pass has ended (the refresher
\* is anywhere but inside a pass), no tracked result has a pid outside the
\* current snapshot.
C3_StalenessBound ==
    refPc \notin ReconStates =>
        \A i \in 1..Len(tracker) : tracker[i].pid \in PidsOf(processes)

\* C3 witness: a pass has ended that removed the result of an exited process
\* and kept another result of the same query.
C3_Witness ==
    /\ refPc = "sleep"
    /\ \E q \in Tasks :
          /\ qpc[q] = "returned"
          /\ qnum[q] = qcount
          /\ \E i, j \in 1..Len(qresults[q]) :
                /\ qresults[q][i].pid \notin PidsOf(processes)
                /\ qresults[q][i].id \notin TrackedIds
                /\ qresults[q][i].id \notin failedIds
                /\ qresults[q][j].id \in TrackedIds

\* C4: a new query supersedes the old result set: whenever no query is in
\* progress, every tracked result was emitted by the request that cleared
\* the tracker last.
C4_NewQuerySupersedes ==
    (\A q \in Tasks : ~ InProgress(q)) =>
        \A i \in 1..Len(tracker) : tracker[i].result_id[1] = qcount

\* C5: every emitted result is registered: in the step in which a query
\* returns, each result of the returned list has a tracker entry under its
\* id with the pid of its kill action.
C5_EmittedRegistered ==
    [][\A q \in Tasks :
          (qpc[q] # "returned" /\ qpc'[q] = "returned") =>
              \A i \in 1..Len(qresults'[q]) :
                  \E k \in 1..Len(tracker') :
                      /\ tracker'[k].result_id = qresults'[q][i].id
                      /\ tracker'[k].pid = qresults'[q][i].pid]_vars

\* C6: eager pruning on host failure: a result for which a host interaction
\* failed is marked for removal while the pass goes on, is out of the tracker
\* once the pass has ended, and is never again the subject of a host call.
C6_EagerPruning ==
    /\ refPc \notin ReconStates => TrackedIds \cap failedIds = {}
    /\ refPc \in ReconStates =>
          /\ cur.result_id \notin failedIds
          /\ \A id \in TrackedIds \cap failedIds :
                \E k \in 1..Len(to_remove) : to_remove[k] = id

\* C6 witness: after a failed host interaction for one result, the same pass
\* is updating another one.
C6_Witness ==
    /\ refPc = "recon_upd"
    /\ \E k \in 1..Len(to_remove) :
          to_remove[k] \in failedIds /\ to_remove[k] \in TrackedIds
    /\ cur.result_id \in TrackedIds

\* C7: updates go only to still-tracked results: in the step that calls
\* update_result, the result id at hand is in the tracker.
C7_UpdatesOnlyTracked ==
    [][(refPc = "recon_tr" /\ refPc' = "recon_upd") =>
          cur.result_id \in TrackedIds]_vars

\* C8: no slow I/O under the lock: whoever holds the lock is not suspended
\* in a host call.
C8_NoHostCallUnderLock ==
    /\ lock = Refresher => refPc \notin ReconStates
    /\ \A q \in Tasks : lock = q => qpc[q] # "iter"

\* C9: filter correctness: the pids of a returned list are exactly the pids
\* of the iterated snapshot whose raw name, friendly name or executable path
\* contains the search term case-insensitively (all of them when the term is
\* empty).
C9_FilterCorrect ==
    \A q \in Tasks :
        qpc[q] = "returned" =>
            {qresults[q][i].pid : i \in 1..Len(qresults[q])}
              = {qitems[q][i].pid : i \in
                    {k \in 1..Len(qitems[q]) :
                        \/ qsearch[q] = <<>>
                        \/ ContainsIgnoreCase(qitems[q][k].name, qsearch[q])
                        \/ ContainsIgnoreCase(qitems[q][k].friendly_name, qsearch[q])
                        \/ ContainsIgnoreCase(qitems[q][k].exe_path, qsearch[q])}}

\* C9 witness: a query with a mixed-case term returned one record and left
\* the other out.
C9_Witness ==
    \E q \in Tasks :
        /\ qpc[q] = "returned"
        /\ qsearch[q] # <<>>
        /\ qsearch[q] # Lower(qsearch[q])
        /\ Len(qresults[q]) = 1
        /\ Len(qitems[q]) = 2

\* C10: scoring: a returned result scores 100 exactly when the term is not
\* empty and is contained, case ignored, in the raw name or the friendly
\* name of its record, and 50 otherwise.
C10_Scoring ==
    \A q \in Tasks :
        qpc[q] = "returned" =>
            \A i \in 1..Len(qresults[q]) :
                LET rec == GetProc(qitems[q], qresults[q][i].pid) IN
                qresults[q][i].score =
                    IF /\ qsearch[q] # <<>>
                       /\ \/ ContainsIgnoreCase(rec.name, qsearch[q])
                          \/ ContainsIgnoreCase(rec.friendly_name, qsearch[q])
                    THEN 100 ELSE 50

\* C10 witness: one returned list holds a result of score 100 and a result
\* that matched by its path only, of score 50.
C10_Witness ==
    \E q \in Tasks :
        /\ qpc[q] = "returned"
        /\ qsearch[q] # <<>>
        /\ \E i, j \in 1..Len(qresults[q]) :
              /\ qresults[q][i].score = 100
              /\ qresults[q][j].score = 50
\* C11: reconciliation is idempotent. When two passes of _update_tracked_results
\* that follow one another run on the same snapshot, and in both the host
\* answers every tracked result as updatable and every update succeeds, the
\* second pass removes nothing: the tracker after it is the tracker after
\* the first.
C11_ReconcileIdempotent ==
    \A i \in 1..(Len(passLog) - 1) :
        (/\ passLog[i].snapshot = passLog[i + 1].snapshot
         /\ passLog[i].clean
         /\ passLog[i + 1].clean)
        => /\ passLog[i + 1].after = passLog[i + 1].before
           /\ passLog[i + 1].after = passLog[i].after

\* Two clean passes on one snapshot, the first of which removed a result and
\* kept another, for which the host was asked in both.
C11_Witness ==
    \E i \in 1..(Len(passLog) - 1) :
        /\ passLog[i].snapshot = passLog[i + 1].snapshot
        /\ passLog[i].clean
        /\ passLog[i + 1].clean
        /\ passLog[i].after # passLog[i].before
        /\ passLog[i].after # <<>>

\* C12: name-cache TTL. Once the platform lookups have given a name for a
\* pid, every further get_friendly_name call for that pid less than
\* cache_expiration seconds later returns that name without running the
\* lookups, and a call after the entry has expired runs them again.
C12_NameCacheTtl ==
    [][\A p \in Pids :
         (rcall'.seq # rcall.seq /\ rcall'.pid = p /\ resolvedAt[p].at >= 0)
         => IF now - resolvedAt[p].at < cache_expiration
            THEN ~ rcall'.ran /\ rcall'.result = resolvedAt[p].name
            ELSE rcall'.ran /\ resolvedAt'[p].at = now]_vars

\* C13: pid reuse. The friendly name of every snapshot record is the one
\* resolved from the process that held the pid when the tick inspected it:
\* it belongs to the program whose raw name the record carries, never to a
\* previous holder of the pid.
C13_PidReuseRecomputed ==
    \A i \in 1..Len(processes) :
        \E g \in ProgramIds :
            /\ processes[i].name = ProgramTable[g].name
            /\ processes[i].friendly_name
                 \in {get_friendly_name(ProgramTable[g], o) : o \in TickOutcomes}

\* A returned query still holds the records of a snapshot in which pid 1 was
\* Chrome; the snapshot now installed has pid 1 as sshd, named from sshd.
C13_Witness ==
    \E q \in Tasks :
        /\ \E i \in 1..Len(qitems[q]) :
              /\ qitems[q][i].pid = 1
              /\ qitems[q][i].name = Chrome.name
              /\ qitems[q][i].friendly_name = Chrome.friendly
        /\ HasPid(processes, 1)
        /\ GetProc(processes, 1).name = Sshd.name
        /\ GetProc(processes, 1).friendly_name = Sshd.friendly

\* C14: resolution never fails. Whatever the name read, the executable-path
\* read and the platform lookups do, get_friendly_name returns a string; when
\* the name read raises it returns the raw name read directly, and "Unknown
\* Process" when that read raises too.
C14_ResolutionNeverFails ==
    rcall.seq > 0 =>
        /\ rcall.result.kind = "str"
        /\ (rcall.probe.name_read = "raises" /\ rcall.probe.name_direct = "value")
              => rcall.result = Str(RawName)
        /\ (rcall.probe.name_read = "raises" /\ rcall.probe.name_direct = "raises")
              => rcall.result = Str(UnknownProcess)

\* C20: the tiers of the bundle-based platform are isolated. When the
\* registry gives no name, by finding none or by raising, the bundle lookup
\* from the executable path is still made and its name is returned when it
\* gives one; the raw name is returned only when no tier gives a name.
C20_TiersIsolated ==
    (/\ rcall.seq > 0
     /\ rcall.probe.system = "Darwin"
     /\ rcall.probe.name_read = "value")
    => /\ (/\ rcall.probe.workspace \in {"no_match", "raises"}
           /\ rcall.probe.exe = "bundle"
           /\ rcall.probe.bundle = "name")
          => rcall.result = Str(BundleName)
       /\ rcall.probe.workspace = "name" => rcall.result = Str(RegistryName)
       /\ rcall.result = Str(RawName)
          => /\ rcall.probe.workspace # "name"
             /\ ~ (rcall.probe.exe = "bundle" /\ rcall.probe.bundle = "name"
                   /\ rcall.probe.workspace # "absent")

C16_KillIndependentOfLock ==
    [][kill'.seq # kill.seq
       => UNCHANGED <<lock, waiters, refPc, qpc, processes, tracker>>]_vars

\* A kill succeeded while the lock was held; the killed pid is gone from the
\* OS and still in the snapshot.
C16_Witness ==
    /\ kill.seq > 0
    /\ kill.termination = "ok"
    /\ kill.during # NoTask
    /\ os[kill.pid] = NoProc
    /\ HasPid(processes, kill.pid)

Listed(p) == inspected.listing[p] # NoProc
ListedProgram(p) == ProgramTable[inspected.listing[p]]
Vanished == {"gone_before_handle", "gone_before_resolve", "gone_before_exe"}

\* C17: per-process error isolation. In the snapshot a tick installs, a
\* listed process whose handle could not be created has no record, and every
\* other listed process has its record, whatever happened to the others: with
\* an empty path when its executable path could not be read, zero memory when
\* its memory info could not be read, and owner "N/A" when the owner is
\* unknown.
C17_PerProcessIsolation ==
    \A p \in Pids :
        IF ~ Listed(p) \/ inspected.outcome[p] \in Skipped
        THEN ~ HasPid(processes, p)
        ELSE /\ HasPid(processes, p)
             /\ LET r == GetProc(processes, p)
                    o == inspected.outcome[p]
                    prog == ListedProgram(p)
                IN /\ r.name = prog.name
                   /\ r.exe_path = IF o \in {"exe_denied", "gone_before_exe",
                                             "gone_before_resolve"}
                                   THEN <<>> ELSE prog.exe
                   /\ r.memory_mb = IF o = "mem_unavailable"
                                    THEN [num |-> 0, den |-> MiB]
                                    ELSE [num |-> prog.rss, den |-> MiB]
                   /\ r.username = IF prog.username = <<>> THEN NotAvailable
                                   ELSE prog.username

\* A tick listed two processes: the handle of the first could not be created,
\* and the second, whose path could not be read, has its record.
C17_Witness ==
    /\ Listed(1)
    /\ inspected.outcome[1] = "handle_denied"
    /\ Listed(2)
    /\ inspected.outcome[2] = "exe_denied"
    /\ PidsOf(processes) = {2}
    /\ GetProc(processes, 2).exe_path = <<>>
    /\ GetProc(processes, 2).username = NotAvailable

\* C18: vanished processes are skipped. A process that exits between its
\* listing and any point of its inspection (handle creation, name resolution,
\* executable-path read) has no record in the snapshot the tick installs.
C18_VanishedSkipped ==
    \A p \in Pids :
        (Listed(p) /\ inspected.outcome[p] \in Vanished) => ~ HasPid(processes, p)

\* C19: a process that has exited eventually leaves the snapshot. In the form
\* a finite run refutes: whenever the snapshot holds the pid of a process
\* that is gone from the OS, a tick is still to come, that is, the refresher
\* task has not ended.
C19_ExitedLeavesSnapshot ==
    \A p \in Pids :
        (HasPid(processes, p) /\ os[p] = NoProc) => refPc # "dead"

\* The descriptors of a layout that sit in a readable directory, mention the
\* executable and declare a Name, as (directory, file) pairs.
NamedIn(layout) ==
    {<<d, i>> \in DirIds \X (1..MaxFiles) :
        /\ layout[d].state = "readable"
        /\ i <= Len(layout[d].files)
        /\ layout[d].files[i] = "named"}
Before(a, b) == a[1] < b[1] \/ (a[1] = b[1] /\ a[2] <= b[2])

\* C21: the desktop-entry lookup scans all three directories. Whatever
\* directories are missing or unreadable and whatever files are unreadable,
\* when a readable directory holds a descriptor that mentions the executable
\* and declares a Name, the resolver returns the declared name of the first
\* such descriptor in scan order.
C21_DesktopScanComplete ==
    rcall.seq > 0 =>
        \A f \in NamedIn(rcall.probe) :
            (\A g \in NamedIn(rcall.probe) : Before(f, g))
            => rcall.result = Str(DeclaredName(f[1], f[2]))

\* C22: result ordering. The list a query returns is sorted by descending
\* score: no result precedes a result with a higher score; results of equal
\* score are in the enumeration order of the snapshot.
C22_ResultOrdering ==
    \A q \in Tasks :
        qpc[q] = "returned" =>
            \A i \in 1..Len(qresults[q]), j \in 1..Len(qresults[q]) :
                i < j =>
                    /\ qresults[q][i].score >= qresults[q][j].score
                    /\ qresults[q][i].score = qresults[q][j].score
                          => qresults[q][i].pid < qresults[q][j].pid

IsPrefix(a, b) == Len(a) <= Len(b) /\ SubSeq(b, 1, Len(a)) = a
\* s ends with its only occurrence of the marker.
EndsAtFirstMarker(s) ==
    /\ Len(s) >= Len(AppMarker)
    /\ SubSeq(s, Len(s) - Len(AppMarker) + 1, Len(s)) = AppMarker
    /\ ~ In(AppMarker, SubSeq(s, 1, Len(s) - 1))

\* C23: subtitle formatting. The subtitle of a record's result is the same
\* in query and in a reconciliation update: the raw name when the path is
\* empty; on the bundle-aware platform, for a path with the bundle marker,
\* the path cut right after its first marker (the Finder's path gives
\* ".../Finder.app"); the unmodified path otherwise. Truncating a truncated
\* path changes nothing.
C23_SubtitleFormat ==
    shown.seq > 0 =>
        /\ shown.query = shown.update
        /\ IF shown.exe_path = <<>> THEN shown.query = shown.name
           ELSE IF shown.system = "Darwin" /\ In(AppMarker, shown.exe_path)
                THEN /\ IsPrefix(shown.query, shown.exe_path)
                     /\ EndsAtFirstMarker(shown.query)
                     /\ shown.twice = shown.query
                ELSE /\ shown.query = shown.exe_path
                     /\ shown.twice = shown.exe_path
        /\ (shown.system = "Darwin" /\ shown.exe_path = FinderExe)
              => shown.query = FinderApp

\* The Finder's record on the bundle-aware platform.
C23_Witness ==
    /\ shown.seq > 0
    /\ shown.system = "Darwin"
    /\ shown.exe_path = FinderExe
    /\ shown.query = FinderApp
    /\ shown.update = FinderApp

\* A task that waits for the lock is in the lock's queue, and the lock is
\* then held by an activity that is not itself waiting for it.
NotAllBlocked ==
    /\ \A q \in Tasks :
          qpc[q] = "wait_lock" =>
             /\ \E i \in 1..Len(waiters) : waiters[i] = q
             /\ lock # NoTask
    /\ refPc = "wait_lock" =>
          /\ \E i \in 1..Len(waiters) : waiters[i] = Refresher
          /\ lock # NoTask
    /\ \A q \in Tasks : lock = q => qpc[q] \in {"granted", "iter"}
    /\ lock = Refresher => refPc \in {"granted", "recon_get", "recon_tr", "recon_upd"}

\* C24: no deadlock and no starved query. Every host call being answered,
\* every query that is issued returns, with its list or with an error, also
\* when it has to wait for the lock and when the holder of the lock fails;
\* and in no state are all activities blocked on the lock.
C24_QueriesReturn ==
    /\ [] NotAllBlocked
    /\ \A q \in Tasks :
          (qpc[q] \in {"wait_lock", "granted", "iter"})
             ~> (qpc[q] \in {"idle", "returned"})

\* A query waits for the lock while the refresher, suspended in a host call,
\* holds it.
C24_Witness ==
    /\ lock = Refresher
    /\ refPc \in {"recon_get", "recon_tr", "recon_upd"}
    /\ \E q \in Tasks : qpc[q] = "wait_lock" /\ waiters = <<q>>


\* A step of a query: a request is issued, a result is appended, or a task
\* that is not waiting for the lock moves on.
QueryStep ==
    \/ qcount' # qcount
    \/ qresults' # qresults
    \/ \E q \in Tasks : qpc[q] # "wait_lock" /\ qpc'[q] # qpc[q]

\* The entries of trk, in order, are entries of old, in order.
RECURSIVE IsSubSeq(_, _)
IsSubSeq(trk, old) ==
    IF trk = <<>> THEN TRUE
    ELSE IF old = <<>> THEN FALSE
    ELSE IF Head(trk) = Head(old) THEN IsSubSeq(Tail(trk), Tail(old))
    ELSE IsSubSeq(trk, Tail(old))

\* C25: a step that is not a query's (a step of a reconciliation pass among
\* them) never adds a tracker entry and never changes the pid of one: the
\* tracker after it is a sub-sequence of the tracker before it. The snapshot
\* changes only in the step of the refresher that starts a tick's body, where
\* it becomes the mapping just built; no step of a query and no later step of
\* the pass changes it.
C25_Frame ==
    [][ /\ ~ QueryStep =>
             /\ IsSubSeq(tracker', tracker)
             /\ \A i \in 1..Len(tracker') : \A j \in 1..Len(tracker) :
                    tracker'[i].result_id = tracker[j].result_id
                        => tracker'[i].pid = tracker[j].pid
        /\ processes' # processes =>
             /\ ~ QueryStep
             /\ refPc \in {"sleep", "granted"}
             /\ processes' = lastBuilt' ]_vars

\* A pass has ended that removed a failed entry and kept another, over an
\* installed snapshot.
C25_Witness ==
    /\ refPc = "sleep"
    /\ processes # <<>>
    /\ failedIds # {}
    /\ tracker # <<>>
    /\ \A i \in 1..Len(tracker) : tracker[i].result_id \notin failedIds


\* C26: with a host that answers, an action whose payload has no pid, or a
\* pid that is no integer literal, requests no termination, sends the host
\* the invalid-pid notification and raises nothing; an action whose pid
\* parses requests termination exactly once, for exactly that pid.
C26_MalformedPayload ==
    (acted.seq > 0 /\ acted.host = "ok") =>
        IF acted.payload.has_pid /\ IntParses(acted.payload.pid)
        THEN acted.requested = <<int(acted.payload.pid)>>
        ELSE /\ acted.requested = <<>>
             /\ acted.sent = <<"notify_invalid_pid">>
             /\ acted.raised = "none"

====
